---- MODULE Spec2Model ----
(***************************************************************************)
(* The notebook codes/ipython/1-basics/automatic_differentiation.ipynb as  *)
(* a state machine: one Python kernel, its global namespace (x, f, h,      *)
(* grad), the gradient tape bound to grad, and the statements of the code  *)
(* cells executed one at a time.  The tape operators follow the behaviour  *)
(* of tf.GradientTape that the cells call and that the notebook's          *)
(* markdown and recorded outputs document.                                 *)
(***************************************************************************)
EXTENDS Integers, Sequences, FiniteSets, TLC

\* ------------------------------------------------------------------ bounds
\* SpecVals draws the literal of tf.constant([...]) from -MaxVal..MaxVal.
MaxVal == 2
\* A practice run calls grad.watch(x) at most MaxWatch times.
MaxWatch == 2
\* A practice run makes at most MaxQueries gradient queries.
MaxQueries == 2

\* ------------------------------------------------------- program constants
\* x = tf.constant([2.0])
Literal == 2

Vals == (0 - MaxVal)..MaxVal

Names == {"x", "f", "h", "grad"}

NotebookCells == {"26FVM1x8F-k0", "y_UO_8xnG6SY", "s2SxqhpeHab7", "V-ugyJGRHc7S"}

VARIABLES
  lit,        \* the literal of x = tf.constant([lit])
  imported,   \* the import cell has run: tf is bound in the kernel
  cell,       \* the cell being executed, "practice", or "idle"
  prog,       \* the statements of the cell being executed
  pc,         \* index in prog of the next statement
  ns,         \* the kernel namespace: name -> [obj, fresh]
  out,        \* what the running cell has printed so far
  err,        \* the exception that ended the running cell, or "none"
  foreign     \* names the running cell read that it had not bound itself

vars == <<lit, imported, cell, prog, pc, ns, out, err, foreign>>

\* ------------------------------------------------------------------ values
Unbound == [kind |-> "unbound"]

None == [kind |-> "None", val |-> 0]

Tensor(v) == [kind |-> "Tensor", val |-> v]

EagerTensor(i, v) == [kind |-> "tensor", id |-> i, val |-> v, variable |-> FALSE]

ResourceVariable(i, v) == [kind |-> "tensor", id |-> i, val |-> v, variable |-> TRUE]

\* The ids an object holds: its own, or those a tape has watched or recorded.
Ids(obj) ==
  IF obj.kind = "tensor" THEN {obj.id}
  ELSE IF obj.kind = "tape"
       THEN obj.watched \cup {obj.ops[i].in : i \in DOMAIN obj.ops}
                        \cup {obj.ops[i].out : i \in DOMAIN obj.ops}
       ELSE {}

UsedIds(n) == UNION {Ids(n[k].obj) : k \in Names}

\* A fresh tensor id: the least one no live object holds.
uid(n) ==
  LET used == UsedIds(n)
  IN  CHOOSE i \in 0..Cardinality(used) :
        /\ i \notin used
        /\ \A j \in 0..(i - 1) : j \in used

RECURSIVE Power(_, _)
Power(b, n) == IF n <= 0 THEN 1 ELSE b * Power(b, n - 1)

\* ------------------------------------------------------------ tf.constant
tf_constant(n, v) == EagerTensor(uid(n), v)

\* ------------------------------------------------------------ tf.Variable
tf_Variable(n, t) == ResourceVariable(uid(n), t.val)

\* ------------------------------------------------------- tf.GradientTape
GradientTape(p, w) ==
  [kind |-> "tape",
   persistent |-> p,
   watch_accessed_variables |-> w,
   recording |-> FALSE,
   released |-> FALSE,
   watched |-> {},
   ops |-> <<>>]

\* with ... as grad: the scope opens and the tape starts recording.
Enter(tape) == [tape EXCEPT !.recording = TRUE]

\* The end of the with block: the tape stops recording.
Exit(tape) == [tape EXCEPT !.recording = FALSE]

\* grad.watch(x)
MutWatchNothing(tape, t) == tape
MutWatchToggle(tape, t) ==
  [tape EXCEPT !.watched = IF t.id \in @ THEN @ \ {t.id} ELSE @ \cup {t.id}]
watch(tape, t) == [tape EXCEPT !.watched = @ \cup {t.id}]

\* Reading a trainable variable inside the scope: watched automatically
\* when watch_accessed_variables is set.
MutVariableAccessed(tape, t) == tape
variable_accessed(tape, t) ==
  IF t.variable /\ tape.recording /\ tape.watch_accessed_variables
  THEN watch(tape, t)
  ELSE tape

\* The tensors the tape tracks: those watched and those its operations made.
Tracked(tape) == tape.watched \cup {tape.ops[i].out : i \in DOMAIN tape.ops}

\* An operation is recorded when the tape is recording and tracks its input.
MutShouldRecord(tape, t) == tape.recording
ShouldRecord(tape, t) == tape.recording /\ t.id \in Tracked(tape)

RecordOperation(tape, t, n, id) ==
  [tape EXCEPT !.ops = Append(@, [in |-> t.id, inval |-> t.val, exp |-> n, out |-> id])]

\* x ** n evaluated under the tape: the result and the tape afterwards.
Pow(tape, t, n, id) ==
  LET seen == IF tape.kind = "tape" THEN variable_accessed(tape, t) ELSE tape
  IN  [result |-> EagerTensor(id, Power(t.val, n)),
       tape   |-> IF seen.kind = "tape" /\ ShouldRecord(seen, t)
                  THEN RecordOperation(seen, t, n, id)
                  ELSE seen]

\* d(x ** n)/dx applied to the gradient g flowing into the output.
MutPowGrad(op, g) == g * op.exp * Power(op.inval, op.exp)
PowGrad(op, g) == g * op.exp * Power(op.inval, op.exp - 1)

\* The backward pass: the recorded operations from the last to the first,
\* each passing the gradient of its output on to its input.
RECURSIVE Backward(_, _, _)
Backward(ops, i, g) ==
  IF i = 0 THEN g
  ELSE LET op == ops[i]
       IN  IF op.out \in DOMAIN g
           THEN LET d == PowGrad(op, g[op.out])
                    acc == IF op.in \in DOMAIN g THEN g[op.in] + d ELSE d
                IN  Backward(ops, i - 1, (op.in :> acc) @@ g)
           ELSE Backward(ops, i - 1, g)

\* grad.gradient(target, source) on a tape that still holds its recording.
gradient(tape, target, source) ==
  LET seed == IF target.id \in Tracked(tape)
              THEN (target.id :> 1)
              ELSE [i \in {} |-> 0]
      g == Backward(tape.ops, Len(tape.ops), seed)
  IN  IF source.id \in DOMAIN g THEN Tensor(g[source.id]) ELSE None

\* After a gradient query a tape that is not persistent drops its recording.
MutReleaseNever(tape) == tape
MutReleaseAlways(tape) ==
  [tape EXCEPT !.released = TRUE, !.recording = FALSE, !.watched = {}, !.ops = <<>>]
Release(tape) ==
  IF tape.persistent
  THEN tape
  ELSE [tape EXCEPT !.released = TRUE, !.recording = FALSE, !.watched = {}, !.ops = <<>>]

\* ------------------------------------------------------------- statements
Stmt(o, t, n, p) == [op |-> o, target |-> t, k |-> n, persistent |-> p]

S_constant(v) == Stmt("constant", "x", v, FALSE)
S_Variable == Stmt("Variable", "x", 0, FALSE)
S_with(p) == Stmt("with", "grad", 0, p)
S_watch == Stmt("watch", "x", 0, FALSE)
S_pow(t, n) == Stmt("pow", t, n, FALSE)
S_end == Stmt("end", "grad", 0, FALSE)
S_print(t) == Stmt("print", t, 0, FALSE)

\* ------------------------------------------------------------- the cells
\* Cell 26FVM1x8F-k0: a constant, no watch.
MutCell_26FVM1x8F_k0 ==
  << S_with(FALSE), S_pow("f", 2), S_end, S_print("f") >>
Cell_26FVM1x8F_k0 ==
  << S_constant(lit), S_with(FALSE), S_pow("f", 2), S_end, S_print("f") >>

\* Cell y_UO_8xnG6SY: a variable, no watch.
MutCell_y_UO_8xnG6SY ==
  << S_with(FALSE), S_pow("f", 2), S_end, S_print("f") >>
Cell_y_UO_8xnG6SY ==
  << S_constant(lit), S_Variable, S_with(FALSE), S_pow("f", 2), S_end, S_print("f") >>

\* Cell s2SxqhpeHab7: a constant, watched.
MutCell_s2SxqhpeHab7 ==
  << S_constant(lit), S_with(FALSE), S_pow("f", 2), S_watch, S_end, S_print("f") >>
Cell_s2SxqhpeHab7 ==
  << S_constant(lit), S_with(FALSE), S_watch, S_pow("f", 2), S_end, S_print("f") >>

\* Cell V-ugyJGRHc7S: a variable, a persistent tape, two outputs.
Cell_V_ugyJGRHc7S ==
  << S_constant(lit), S_Variable, S_with(TRUE), S_pow("f", 2), S_pow("h", 3),
     S_end, S_print("f"), S_print("h") >>

Program(c) ==
  CASE c = "26FVM1x8F-k0" -> Cell_26FVM1x8F_k0
    [] c = "y_UO_8xnG6SY" -> Cell_y_UO_8xnG6SY
    [] c = "s2SxqhpeHab7" -> Cell_s2SxqhpeHab7
    [] c = "V-ugyJGRHc7S" -> Cell_V_ugyJGRHc7S

\* What the notebook records each cell to have printed (with the literal 2.0).
StoredOutput(c) ==
  CASE c = "26FVM1x8F-k0" -> << None >>
    [] c = "y_UO_8xnG6SY" -> << Tensor(4) >>
    [] c = "s2SxqhpeHab7" -> << Tensor(4) >>
    [] c = "V-ugyJGRHc7S" -> << Tensor(4), Tensor(12) >>

\* The queries a practice run may make: f or h, in any order, repeated.
Queries == UNION {[1..n -> {"f", "h"}] : n \in 1..MaxQueries}

RECURSIVE Watches(_)
Watches(n) == IF n = 0 THEN <<>> ELSE <<S_watch>> \o Watches(n - 1)

\* The last cell with its knobs turned ("For practice, turn persistent to
\* False"): the value wrapped as a variable or not, watch() called or not,
\* persistent either way, and the gradient queries in any order.
Practice(asVariable, nWatch, persistent, qs) ==
  << S_constant(lit) >>
  \o (IF asVariable THEN << S_Variable >> ELSE <<>>)
  \o << S_with(persistent) >>
  \o Watches(nWatch)
  \o << S_pow("f", 2), S_pow("h", 3), S_end >>
  \o [i \in DOMAIN qs |-> S_print(qs[i])]

\* ------------------------------------------- the statements, as functions
\* The kernel while a cell runs: k = [imported, ns, out, err, foreign].
Kernel == [imported |-> imported, ns |-> ns, out |-> out, err |-> err, foreign |-> foreign]

Bound(k, names) == \A n \in names : k.ns[n].obj.kind # "unbound"

Bind(n, k, obj) == [n EXCEPT ![k] = [obj |-> obj, fresh |-> TRUE]]

\* Reading names: those this execution did not bind are noted.
Read(k, names) == [k EXCEPT !.foreign = @ \cup {n \in names : ~k.ns[n].fresh}]

Raise(k, e) == [k EXCEPT !.err = e]

\* x = tf.constant([v])
exec_constant(k, s) ==
  IF ~k.imported
  THEN Raise(k, "NameError")
  ELSE [k EXCEPT !.ns = Bind(@, "x", tf_constant(@, s.k))]

\* x = tf.Variable(x)
exec_Variable(k, s) ==
  IF ~k.imported
  THEN Raise(k, "NameError")
  ELSE IF ~Bound(k, {"x"})
  THEN Raise(Read(k, {"x"}), "NameError")
  ELSE [Read(k, {"x"}) EXCEPT !.ns = Bind(@, "x", tf_Variable(@, @["x"].obj))]

\* with tf.GradientTape(persistent=p, watch_accessed_variables=True) as grad:
exec_with(k, s) ==
  IF ~k.imported
  THEN Raise(k, "NameError")
  ELSE [k EXCEPT !.ns = Bind(@, "grad", Enter(GradientTape(s.persistent, TRUE)))]

\* grad.watch(x)
exec_watch(k, s) ==
  IF ~Bound(k, {"grad", "x"})
  THEN Raise(Read(k, {"grad", "x"}), "NameError")
  ELSE [Read(k, {"grad", "x"}) EXCEPT !.ns["grad"].obj = watch(@, k.ns["x"].obj)]

\* f = x ** 2, h = x ** 3: evaluated under the tape the scope has opened.
exec_pow(k, s) ==
  IF ~Bound(k, {"x"})
  THEN Raise(Read(k, {"x"}), "NameError")
  ELSE LET r == Pow(k.ns["grad"].obj, k.ns["x"].obj, s.k, uid(k.ns))
       IN  [Read(k, {"x"}) EXCEPT !.ns = Bind([@ EXCEPT !["grad"].obj = r.tape],
                                               s.target, r.result)]

\* The with block ends.
exec_end(k, s) ==
  [k EXCEPT !.ns["grad"].obj = IF @.kind = "tape" THEN Exit(@) ELSE @]

\* print(..., grad.gradient(target, x))
exec_print(k, s) ==
  LET names == {"grad", s.target, "x"}
  IN  IF ~Bound(k, names)
      THEN Raise(Read(k, names), "NameError")
      ELSE IF k.ns["grad"].obj.released
      THEN Raise(Read(k, names), "RuntimeError")
      ELSE [Read(k, names) EXCEPT
              !.out = Append(@, gradient(k.ns["grad"].obj, k.ns[s.target].obj, k.ns["x"].obj)),
              !.ns["grad"].obj = Release(@)]

Step(k, s) ==
  CASE s.op = "constant" -> exec_constant(k, s)
    [] s.op = "Variable" -> exec_Variable(k, s)
    [] s.op = "with" -> exec_with(k, s)
    [] s.op = "watch" -> exec_watch(k, s)
    [] s.op = "pow" -> exec_pow(k, s)
    [] s.op = "end" -> exec_end(k, s)
    [] s.op = "print" -> exec_print(k, s)

\* The kernel as a cell starts: nothing printed, nothing bound by this run.
Fresh(k) ==
  [k EXCEPT !.ns = [n \in Names |-> [k.ns[n] EXCEPT !.fresh = FALSE]],
            !.out = <<>>, !.err = "none", !.foreign = {}]

\* Running the statements p[i..] to the end, or to the first exception.
RECURSIVE RunFrom(_, _, _)
RunFrom(k, p, i) ==
  IF i > Len(p) \/ k.err # "none" THEN k ELSE RunFrom(Step(k, p[i]), p, i + 1)

\* What executing the cell p in the kernel as it is now would leave.
Execute(p) == RunFrom(Fresh(Kernel), p, 1)

\* ---------------------------------------------------------------- actions
Init ==
  /\ lit = Literal
  /\ imported = FALSE
  /\ cell = "idle"
  /\ prog = <<>>
  /\ pc = 1
  /\ ns = [k \in Names |-> [obj |-> Unbound, fresh |-> FALSE]]
  /\ out = <<>>
  /\ err = "none"
  /\ foreign = {}

Idle == cell = "idle"

Running == cell # "idle" /\ err = "none" /\ pc <= Len(prog)

Done == cell # "idle" /\ (err # "none" \/ pc > Len(prog))

\* Cell iJoLp_aUvBFR: import tensorflow as tf.
Import ==
  /\ Idle
  /\ imported' = TRUE
  /\ UNCHANGED <<lit, cell, prog, pc, ns, out, err, foreign>>

Start(c, p) ==
  /\ Idle
  /\ cell' = c
  /\ prog' = p
  /\ pc' = 1
  /\ ns' = Fresh(Kernel).ns
  /\ out' = <<>>
  /\ err' = "none"
  /\ foreign' = {}
  /\ UNCHANGED <<lit, imported>>

RunCell(c) == Start(c, Program(c))

RunPractice ==
  \E asVariable \in BOOLEAN, nWatch \in 0..MaxWatch,
     persistent \in BOOLEAN, qs \in Queries :
    Start("practice", Practice(asVariable, nWatch, persistent, qs))

\* The statement at pc has run: its effects, and pc past it unless it raised.
Commit(k) ==
  /\ ns' = k.ns
  /\ out' = k.out
  /\ err' = k.err
  /\ foreign' = k.foreign
  /\ pc' = IF k.err = "none" THEN pc + 1 ELSE pc
  /\ UNCHANGED <<lit, imported, cell, prog>>

ExecConstant ==
  /\ Running
  /\ prog[pc].op = "constant"
  /\ Commit(exec_constant(Kernel, prog[pc]))

ExecVariable ==
  /\ Running
  /\ prog[pc].op = "Variable"
  /\ Commit(exec_Variable(Kernel, prog[pc]))

ExecWith ==
  /\ Running
  /\ prog[pc].op = "with"
  /\ Commit(exec_with(Kernel, prog[pc]))

ExecWatch ==
  /\ Running
  /\ prog[pc].op = "watch"
  /\ Commit(exec_watch(Kernel, prog[pc]))

ExecPow ==
  /\ Running
  /\ prog[pc].op = "pow"
  /\ Commit(exec_pow(Kernel, prog[pc]))

ExecEnd ==
  /\ Running
  /\ prog[pc].op = "end"
  /\ Commit(exec_end(Kernel, prog[pc]))

ExecPrint ==
  /\ Running
  /\ prog[pc].op = "print"
  /\ Commit(exec_print(Kernel, prog[pc]))

\* The cell has ended; the kernel waits for the next one.
Finish ==
  /\ Done
  /\ cell' = "idle"
  /\ prog' = <<>>
  /\ pc' = 1
  /\ out' = <<>>
  /\ err' = "none"
  /\ foreign' = {}
  /\ UNCHANGED <<lit, imported, ns>>

Next ==
  \/ Import
  \/ \E c \in NotebookCells : RunCell(c)
  \/ RunPractice
  \/ ExecConstant
  \/ ExecVariable
  \/ ExecWith
  \/ ExecWatch
  \/ ExecPow
  \/ ExecEnd
  \/ ExecPrint
  \/ Finish

Spec == Init /\ [][Next]_vars

\* The same kernel with the literal drawn from a range of integers.
InitVals ==
  /\ lit \in Vals
  /\ imported = FALSE
  /\ cell = "idle"
  /\ prog = <<>>
  /\ pc = 1
  /\ ns = [k \in Names |-> [obj |-> Unbound, fresh |-> FALSE]]
  /\ out = <<>>
  /\ err = "none"
  /\ foreign = {}

SpecVals == InitVals /\ [][Next]_vars

\* ------------------------------------------------------------ properties
HasOp(p, o) == \E i \in DOMAIN p : p[i].op = o

IsPrint(s) == s.op = "print"

IsNotPrint(s) == s.op # "print"

\* The targets of a cell's gradient queries, in order.
Prints(p) == SelectSeq(p, IsPrint)

\* A cell up to the end of its recording scope.
Body(p) == SelectSeq(p, IsNotPrint)

IsPersistent(p) == \E i \in DOMAIN p : p[i].op = "with" /\ p[i].persistent

\* The cell makes x a variable or calls watch() on it.
Tracks(p) == HasOp(p, "Variable") \/ HasOp(p, "watch")

InCell == cell # "idle" /\ imported

TheTape == ns["grad"].obj

\* C1: a gradient query with respect to a plain constant that was never made
\* a variable and never passed to watch() returns None, and does not raise.
C1_UntrackedGradientIsNone ==
  (InCell /\ ~Tracks(prog)) =>
    /\ \A i \in DOMAIN out : out[i] = None
    /\ (Len(out) = 0 => err = "none")
    /\ (Done => Len(out) >= 1)

C1_Witness ==
  /\ cell = "26FVM1x8F-k0"
  /\ Done
  /\ out = << None >>
  /\ err = "none"

\* C2: with watch_accessed_variables=True a variable read inside the scope
\* is tracked without any watch() call: the gradient query with respect to
\* it returns a present result.
C2_VariableIsWatchedAutomatically ==
  (InCell /\ HasOp(prog, "Variable") /\ ~HasOp(prog, "watch")) =>
    /\ (Len(out) = 0 => err = "none")
    /\ (Len(out) >= 1 => out[1].kind = "Tensor")
    /\ (Done => Len(out) >= 1)

C2_Witness ==
  /\ cell = "y_UO_8xnG6SY"
  /\ Done
  /\ Len(out) = 1
  /\ out[1].kind = "Tensor"
  /\ TheTape.watch_accessed_variables

\* C3: with persistent=False the recording is released by the first gradient
\* query: no second query on the same tape is answered, it raises instead.
C3_NonPersistentAnswersOnce ==
  (InCell /\ HasOp(prog, "with") /\ ~IsPersistent(prog)) =>
    /\ Len(out) <= 1
    /\ (Len(out) = 1 => TheTape.released)
    /\ ((Done /\ Len(Prints(prog)) >= 2) => (Len(out) = 1 /\ err = "RuntimeError"))

C3_Witness ==
  /\ prog = Practice(TRUE, 0, FALSE, << "f", "h" >>)
  /\ cell = "practice"
  /\ out = << Tensor(4) >>
  /\ err = "RuntimeError"

\* C4: with persistent=True every gradient query, in any order and repeated,
\* is answered, with a present result when x is tracked, and with the result
\* the same query gives when it is the only one made.
C4_PersistentAnswersEveryQuery ==
  (InCell /\ IsPersistent(prog)) =>
    /\ err = "none"
    /\ (Done => Len(out) = Len(Prints(prog)))
    /\ \A i \in DOMAIN out :
         /\ Tracks(prog) => out[i].kind = "Tensor"
         /\ out[i] = Execute(Body(prog) \o << Prints(prog)[i] >>).out[1]

C4_Witness ==
  /\ prog = Practice(TRUE, 0, TRUE, << "h", "f" >>)
  /\ cell = "practice"
  /\ Done
  /\ out = << Tensor(12), Tensor(4) >>

\* C5: grad.watch(x) on a plain constant, before the expression is evaluated,
\* makes the gradient query return a present result, the one the cell that
\* wraps x as a variable prints.
C5_WatchedConstantLikeVariable ==
  (InCell /\ cell = "s2SxqhpeHab7" /\ Done) =>
    /\ err = "none"
    /\ Len(out) = 1
    /\ out[1].kind = "Tensor"
    /\ out = Execute(Cell_y_UO_8xnG6SY).out

C5_Witness ==
  /\ cell = "s2SxqhpeHab7"
  /\ Done
  /\ out = << Tensor(4) >>
  /\ ~ns["x"].obj.variable

\* C6: no cell reads x, f, h or grad as bound by another execution: every
\* read is of a name the running cell has bound itself.
C6_NoCellReadsAnothersNames ==
  foreign = {}

C6_Witness ==
  /\ cell = "y_UO_8xnG6SY"
  /\ Done
  /\ err = "none"
  /\ ns["h"].obj.kind = "tensor"
  /\ ~ns["h"].fresh

\* C7: watch() on a value the tape already watches changes nothing, and a
\* cell that uses a variable together with watch(), or watch() more than
\* once, prints the gradient the variable cell and the watch cell print.
C7_WatchIsIdempotent ==
  /\ (TheTape.kind = "tape" /\ ns["x"].obj.kind = "tensor"
        /\ ns["x"].obj.id \in TheTape.watched)
       => watch(TheTape, ns["x"].obj) = TheTape
  /\ (InCell /\ cell = "practice" /\ Tracks(prog) /\ Len(out) >= 1
        /\ Prints(prog)[1].target = "f")
       => /\ out[1] = Execute(Cell_y_UO_8xnG6SY).out[1]
          /\ out[1] = Execute(Cell_s2SxqhpeHab7).out[1]

C7_Witness ==
  /\ prog = Practice(TRUE, 2, FALSE, << "f" >>)
  /\ cell = "practice"
  /\ Done
  /\ out = << Tensor(4) >>
  /\ ns["x"].obj.variable

\* The derivative of the notebook's expressions at the literal.
Derivative(t) == IF t = "f" THEN 2 * lit ELSE 3 * lit * lit

\* C8: for a tracked x the backward pass gives the exact derivative:
\* gradient(x**2, x) = 2*x and gradient(x**3, x) = 3*x**2; 4 and 12 at x = 2.
C8_GradientIsExactDerivative ==
  (InCell /\ Tracks(prog)) =>
    \A i \in DOMAIN out :
      /\ out[i] = Tensor(Derivative(Prints(prog)[i].target))
      /\ (lit = 2 /\ Prints(prog)[i].target = "f") => out[i].val = 4
      /\ (lit = 2 /\ Prints(prog)[i].target = "h") => out[i].val = 12

C8_Witness ==
  /\ cell = "V-ugyJGRHc7S"
  /\ Done
  /\ lit < 0
  /\ out = << Tensor(2 * lit), Tensor(3 * lit * lit) >>

Recording == TheTape.kind = "tape" /\ TheTape.recording

OpsRecorded == IF TheTape.kind = "tape" THEN Len(TheTape.ops) ELSE 0

\* The order of the statements of the running cell, against the kernel.
InterfaceOrder ==
  /\ Recording => (Running /\ prog[pc].op \in {"watch", "pow", "end"})
  /\ (InCell /\ Running /\ prog[pc].op = "with") =>
       (ns["x"].fresh /\ ~ns["grad"].fresh /\ ~ns["f"].fresh)
  /\ (InCell /\ Running /\ prog[pc].op \in {"watch", "pow", "end"}) =>
       (ns["x"].fresh /\ ns["grad"].fresh /\ Recording)
  /\ (InCell /\ Running /\ prog[pc].op = "watch") =>
       (~ns["f"].fresh /\ ~ns["h"].fresh)
  /\ (InCell /\ Running /\ prog[pc].op = "print") =>
       (ns["grad"].fresh /\ ns[prog[pc].target].fresh /\ ~Recording)

\* C9: every cell constructs the value before the scope opens, calls watch()
\* and evaluates the expression while it is open, watch() first, and queries
\* the gradient after it has closed; the tape records only while it is open.
C9_InterfaceOrder ==
  /\ []InterfaceOrder
  /\ [][OpsRecorded' > OpsRecorded => (Recording /\ Recording')]_vars

C9_Witness ==
  /\ cell = "s2SxqhpeHab7"
  /\ imported
  /\ Running
  /\ prog[pc].op = "pow"
  /\ Recording
  /\ ns["x"].obj.id \in TheTape.watched

\* C10: once the import cell has run, each cell prints what the notebook
\* records for it, whatever cells ran before it and however often.
C10_CellsPrintTheSameInAnyOrder ==
  (InCell /\ cell \in NotebookCells /\ Done) =>
    (err = "none" /\ out = StoredOutput(cell))

C10_Witness ==
  /\ cell = "26FVM1x8F-k0"
  /\ Done
  /\ out = << None >>
  /\ ns["h"].obj.kind = "tensor"
  /\ ns["h"].obj.val = 8

====
